---- MODULE Spec2Model ----
(***************************************************************************)
(* Model of the meta_planner package: the analytical point-mass value      *)
(* function, the BallsInBox collision space and the Tracker node.          *)
(*                                                                         *)
(* Numbers.  A C++ double is modelled as an exact rational or one of the   *)
(* IEEE special values: [k |-> "fin", n, d] (n/d in lowest terms, d > 0),  *)
(* "pinf", "ninf" or "nan".  Rounding is not modelled and a zero is always *)
(* the positive zero.  Lengths are counted in units of half of the         *)
(* tolerance 1e-8 of balls_in_box.cpp, so that kSmallNumber is 2.          *)
(***************************************************************************)
EXTENDS Integers, Sequences, FiniteSets, TLC

(***************************************************************************)
(* Bounds of the model.                                                    *)
(***************************************************************************)
\* relative positions handed to the value function lie in -MaxPos..MaxPos
MaxPos == 1
\* relative velocities handed to the value function lie in -MaxVel..MaxVel
MaxVel == 1
\* positions and obstacle centres lie on the grid 0..MaxX x 0..MaxY x 0..MaxZ
MaxX == 4
MaxY == 2
MaxZ == 2
\* obstacle centres lie at (x, 1, 1) with x in 0..MaxCentreX
MaxCentreX == 2
\* sensed radii lie in 0..MaxRadius
MaxRadius == 3
\* obstacles the Box holds at most
MaxObstacles == 2
\* clock readings and waypoint times lie in 0..MaxTime
MaxTime == 2
\* largest planner speed, disturbance bound and expansion velocity of the
\* parameter sets whose tracking bounds are compared
MaxParam == 2
\* largest position error of the states whose value is compared with the
\* tracking bound
MaxOffset == 3

(***************************************************************************)
(* IEEE-754 double arithmetic on exact rationals.                          *)
(***************************************************************************)
Abs(i) == IF i < 0 THEN -i ELSE i

Sgn(i) == IF i < 0 THEN -1 ELSE IF i = 0 THEN 0 ELSE 1

RECURSIVE GCD(_, _)
GCD(a, b) == IF b = 0 THEN a ELSE GCD(b, a % b)

Fin(n, d) ==
  LET s == IF d < 0 THEN -1 ELSE 1
      g == GCD(Abs(n), Abs(d))
  IN  [k |-> "fin", n |-> (s * n) \div g, d |-> Abs(d) \div g]

PInf == [k |-> "pinf", n |-> 0, d |-> 1]

NInf == [k |-> "ninf", n |-> 0, d |-> 1]

NaN == [k |-> "nan", n |-> 0, d |-> 1]

Num(i) == Fin(i, 1)

XSign(a) == IF a.k = "fin" THEN Sgn(a.n) ELSE IF a.k = "pinf" THEN 1 ELSE -1

XNeg(a) ==
  IF a.k = "fin" THEN Fin(-a.n, a.d)
  ELSE IF a.k = "pinf" THEN NInf
  ELSE IF a.k = "ninf" THEN PInf
  ELSE NaN

XAdd(a, b) ==
  IF a.k = "nan" \/ b.k = "nan" THEN NaN
  ELSE IF a.k = "fin" /\ b.k = "fin" THEN Fin(a.n * b.d + b.n * a.d, a.d * b.d)
  ELSE IF a.k = "fin" THEN b
  ELSE IF b.k = "fin" THEN a
  ELSE IF a.k = b.k THEN a
  ELSE NaN

XSub(a, b) == XAdd(a, XNeg(b))

XMul(a, b) ==
  IF a.k = "nan" \/ b.k = "nan" THEN NaN
  ELSE IF a.k = "fin" /\ b.k = "fin" THEN Fin(a.n * b.n, a.d * b.d)
  ELSE IF XSign(a) * XSign(b) = 0 THEN NaN
  ELSE IF XSign(a) * XSign(b) > 0 THEN PInf
  ELSE NInf

XDiv(a, b) ==
  IF a.k = "nan" \/ b.k = "nan" THEN NaN
  ELSE IF a.k = "fin" /\ b.k = "fin"
    THEN IF b.n = 0
           THEN IF a.n = 0 THEN NaN ELSE IF a.n > 0 THEN PInf ELSE NInf
           ELSE Fin(a.n * b.d, a.d * b.n)
  ELSE IF a.k = "fin" THEN Num(0)
  ELSE IF b.k # "fin" THEN NaN
  ELSE IF XSign(a) * (IF b.n < 0 THEN -1 ELSE 1) > 0 THEN PInf
  ELSE NInf

\* operator< of two doubles: false as soon as one of them is a NaN
XLess(a, b) ==
  IF a.k = "nan" \/ b.k = "nan" THEN FALSE
  ELSE IF a.k = "fin" /\ b.k = "fin" THEN a.n * b.d < b.n * a.d
  ELSE IF a.k = "ninf" THEN b.k # "ninf"
  ELSE IF a.k = "pinf" THEN FALSE
  ELSE b.k = "pinf"

XLeq(a, b) == a.k # "nan" /\ b.k # "nan" /\ (a = b \/ XLess(a, b))

\* std::max(a, b) is (a < b) ? b : a and std::min(a, b) is (b < a) ? b : a
XMax(a, b) == IF XLess(a, b) THEN b ELSE a

XMin(a, b) == IF XLess(b, a) THEN b ELSE a

Half == Fin(1, 2)

(***************************************************************************)
(* AnalyticalPointMassValueFunction                                        *)
(***************************************************************************)
p_dim_ == 3

Dims == 0 .. (p_dim_ - 1)

StateIdx == 0 .. (2 * p_dim_ - 1)

\* The constructor.  x_dot_max is what dynamics_->Evaluate(Zero(6), u_max_)
\* returns; its last three entries are taken as the accelerations.
Constructor(max_planner_speed, max_tracker_control, min_tracker_control, max_vel_disturbance, max_acc_disturbance, expansion_vel, x_dot_max) ==
  LET tail3 == [dim \in Dims |-> x_dot_max[2 * p_dim_ - 3 + dim]]
      a_max == [dim \in Dims |-> Abs(tail3[dim])]
  IN  [u_max_ |-> max_tracker_control,
       u_min_ |-> min_tracker_control,
       d_v_ |-> max_vel_disturbance,
       d_a_ |-> max_acc_disturbance,
       a_max_ |-> a_max,
       u2a_ |-> [dim \in Dims |->
                   XDiv(Num(tail3[dim]),
                        XMul(Half, Num(max_tracker_control[dim]
                                       - min_tracker_control[dim])))],
       max_planner_speed_ |-> max_planner_speed,
       expand_ |-> [dim \in Dims |->
                      XDiv(XMul(Num(expansion_vel[dim]),
                                XAdd(Num(2 * max_planner_speed[dim]),
                                     XMul(Half, Num(expansion_vel[dim])))),
                           Num(a_max[dim] - max_acc_disturbance[dim]))]]

\* Value surface A: + for x "below" the convex acceleration parabola.
V_A(vf, dim, x, v) ==
  LET v_ref == vf.max_planner_speed_[dim]
  IN  XAdd(Num(-x),
           XDiv(XSub(XMul(Half, Num((v - v_ref) * (v - v_ref))),
                     XMul(Num(v_ref * v_ref), XAdd(Num(1), vf.expand_[dim]))),
                Num(vf.a_max_[dim] - vf.d_a_[dim])))

\* Value surface B: + for x "above" the concave braking parabola.
V_B(vf, dim, x, v) ==
  LET v_ref == vf.max_planner_speed_[dim]
  IN  XSub(Num(x),
           XDiv(XAdd(XMul(XNeg(Half), Num((v + v_ref) * (v + v_ref))),
                     XMul(Num(v_ref * v_ref), XAdd(Num(1), vf.expand_[dim]))),
                Num(vf.a_max_[dim] - vf.d_a_[dim])))

RECURSIVE ValueLoop(_, _, _, _)
ValueLoop(vf, state, dim, V) ==
  IF dim >= p_dim_ THEN V
  ELSE LET x == state[dim]
           v == state[p_dim_ + dim]
           V_this_dim == XMax(V_A(vf, dim, x, v), V_B(vf, dim, x, v))
       IN  ValueLoop(vf, state, dim + 1, XMax(V, V_this_dim))

Value(vf, state) == ValueLoop(vf, state, 0, NInf)

\* grad_V starts as the zero vector and both entries of every axis are
\* written in the loop
Gradient(vf, state) ==
  [i \in StateIdx |->
     LET dim == IF i < p_dim_ THEN i ELSE i - p_dim_
         x == state[dim]
         v == state[p_dim_ + dim]
         v_ref == vf.max_planner_speed_[dim]
     IN  IF XLess(V_B(vf, dim, x, v), V_A(vf, dim, x, v))
           THEN IF i < p_dim_
                  THEN Num(-1)
                  ELSE XDiv(Num(v - v_ref), Num(vf.a_max_[dim] - vf.d_a_[dim]))
           ELSE IF i < p_dim_
                  THEN Num(1)
                  ELSE XDiv(Num(v + v_ref), Num(vf.a_max_[dim] - vf.d_a_[dim]))]

OptimalControl_InsideRule(vf, state) ==
  [dim \in Dims |->
     LET x == state[dim]
         v == state[p_dim_ + dim]
         u_acc == IF XLess(Num(0), vf.u2a_[dim]) THEN vf.u_max_[dim] ELSE vf.u_min_[dim]
         u_dec == IF XLess(Num(0), vf.u2a_[dim]) THEN vf.u_min_[dim] ELSE vf.u_max_[dim]
     IN  IF XLess(V_B(vf, dim, x, v), V_A(vf, dim, x, v)) THEN u_acc ELSE u_dec]

OptimalControl(vf, state) ==
  [dim \in Dims |->
     LET x == state[dim]
         v == state[p_dim_ + dim]
         u_acc == IF XLess(Num(0), vf.u2a_[dim]) THEN vf.u_max_[dim] ELSE vf.u_min_[dim]
         u_dec == IF XLess(Num(0), vf.u2a_[dim]) THEN vf.u_min_[dim] ELSE vf.u_max_[dim]
     IN  IF x >= 0
           THEN IF XLess(V_A(vf, dim, x, v), Num(0)) THEN u_dec ELSE u_acc
           ELSE IF XLess(V_B(vf, dim, x, v), Num(0)) THEN u_acc ELSE u_dec]

relative_high == Fin(1, 5)

relative_low == Fin(1, 20)

ZeroState == [i \in StateIdx |-> 0]

Priority_Unclamped(vf, state) ==
  LET V == Value(vf, state)
      V_safest == Value(vf, ZeroState)
      V_high == XMul(relative_high, V_safest)
      V_low == XMul(relative_low, V_safest)
  IN  XSub(Num(1), XDiv(XSub(V, V_low), XSub(V_high, V_low)))

Priority_Reversed(vf, state) ==
  LET V == Value(vf, state)
      V_safest == Value(vf, ZeroState)
      V_high == XMul(relative_high, V_safest)
      V_low == XMul(relative_low, V_safest)
  IN  XMin(XMax(Num(0), XDiv(XSub(V, V_low), XSub(V_high, V_low))), Num(1))

Priority(vf, state) ==
  LET V == Value(vf, state)
      V_safest == Value(vf, ZeroState)
      V_high == XMul(relative_high, V_safest)
      V_low == XMul(relative_low, V_safest)
  IN  XSub(Num(1),
           XMin(XMax(Num(0), XDiv(XSub(V, V_low), XSub(V_high, V_low))),
                Num(1)))

TrackingBound_NoDisturbance(vf, dim) ==
  LET v_ref == vf.max_planner_speed_[dim]
  IN  XDiv(XMul(XMul(Half, Num(v_ref * v_ref)), XAdd(Num(1), vf.expand_[dim])),
           Num(vf.a_max_[dim] - vf.d_a_[dim]))

TrackingBound(vf, dim) ==
  LET v_ref == vf.max_planner_speed_[dim]
  IN  XDiv(XMul(XMul(Half, Num((v_ref + vf.d_v_[dim]) * (v_ref + vf.d_v_[dim]))),
                XAdd(Num(1), vf.expand_[dim])),
           Num(vf.a_max_[dim] - vf.d_a_[dim]))

\* the bound of this value function (outgoing) for a planner switching into
\* it from the value function value
SwitchingTrackingBound(outgoing, dim, value) == TrackingBound(value, dim)

(***************************************************************************)
(* BallsInBox                                                              *)
(***************************************************************************)
kSmallNumber == 2

\* (a - b).norm() <= r for vectors of doubles, r >= 0
SquaredNorm(vec) ==
  XAdd(XAdd(XMul(vec[0], vec[0]), XMul(vec[1], vec[1])), XMul(vec[2], vec[2]))

NormLeq(vec, r) == XLeq(SquaredNorm(vec), Num(r * r))

\* the same for the difference of two points of the grid, whose entries are
\* whole numbers
IntSquaredNorm(vec) == vec[0] * vec[0] + vec[1] * vec[1] + vec[2] * vec[2]

IntNormLeq(vec, r) == IntSquaredNorm(vec) <= r * r

IntNormLess(vec, r) == IntSquaredNorm(vec) < r * r

IsValid_ClosedFace(points, radii, lower, upper, position, incoming_value, outgoing_value) ==
  /\ \A ii \in Dims :
       LET bound == SwitchingTrackingBound(outgoing_value, ii, incoming_value)
       IN  ~(\/ XLeq(Num(position[ii]), XAdd(Num(lower[ii]), bound))
             \/ XLeq(XSub(Num(upper[ii]), bound), Num(position[ii])))
  /\ \A ii \in 1 .. Len(points) :
       LET p == points[ii]
           corner == [jj \in Dims |->
                        LET bound == SwitchingTrackingBound(outgoing_value, jj,
                                                            incoming_value)
                        IN  IF position[jj] - p[jj] > 0
                              THEN XSub(Num(position[jj]), bound)
                              ELSE XAdd(Num(position[jj]), bound)]
       IN  /\ ~IntNormLeq([jj \in Dims |-> position[jj] - p[jj]], radii[ii])
           /\ ~NormLeq([jj \in Dims |-> XSub(corner[jj], Num(p[jj]))], radii[ii])

IsValid_NoUpperFace(points, radii, lower, upper, position, incoming_value, outgoing_value) ==
  /\ \A ii \in Dims :
       LET bound == SwitchingTrackingBound(outgoing_value, ii, incoming_value)
       IN  ~XLess(Num(position[ii]), XAdd(Num(lower[ii]), bound))
  /\ \A ii \in 1 .. Len(points) :
       LET p == points[ii]
           corner == [jj \in Dims |->
                        LET bound == SwitchingTrackingBound(outgoing_value, jj,
                                                            incoming_value)
                        IN  IF position[jj] - p[jj] > 0
                              THEN XSub(Num(position[jj]), bound)
                              ELSE XAdd(Num(position[jj]), bound)]
       IN  /\ ~IntNormLeq([jj \in Dims |-> position[jj] - p[jj]], radii[ii])
           /\ ~NormLeq([jj \in Dims |-> XSub(corner[jj], Num(p[jj]))], radii[ii])

\* Both loops return false at the first failing check and have no effect,
\* so the result is the conjunction of all the checks.
IsValid(points, radii, lower, upper, position, incoming_value, outgoing_value) ==
  /\ \A ii \in Dims :
       LET bound == SwitchingTrackingBound(outgoing_value, ii, incoming_value)
       IN  ~(\/ XLess(Num(position[ii]), XAdd(Num(lower[ii]), bound))
             \/ XLess(XSub(Num(upper[ii]), bound), Num(position[ii])))
  /\ \A ii \in 1 .. Len(points) :
       LET p == points[ii]
           corner == [jj \in Dims |->
                        LET bound == SwitchingTrackingBound(outgoing_value, jj,
                                                            incoming_value)
                        IN  IF position[jj] - p[jj] > 0
                              THEN XSub(Num(position[jj]), bound)
                              ELSE XAdd(Num(position[jj]), bound)]
       IN  /\ ~IntNormLeq([jj \in Dims |-> position[jj] - p[jj]], radii[ii])
           /\ ~NormLeq([jj \in Dims |-> XSub(corner[jj], Num(p[jj]))], radii[ii])

\* the loop over the stored obstacles, from index ii on, pushing onto the
\* two output lists
RECURSIVE SenseLoop(_, _, _, _, _, _, _)
SenseLoop(points, radii, position, sensor_radius, ii, obstacle_positions, obstacle_radii) ==
  IF ii > Len(points)
    THEN [obstacle_positions |-> obstacle_positions,
          obstacle_radii |-> obstacle_radii,
          result |-> Len(obstacle_positions) > 0]
    ELSE IF IntNormLeq([jj \in Dims |-> position[jj] - points[ii][jj]],
                       radii[ii] + sensor_radius)
           THEN SenseLoop(points, radii, position, sensor_radius, ii + 1,
                          Append(obstacle_positions, points[ii]),
                          Append(obstacle_radii, radii[ii]))
           ELSE SenseLoop(points, radii, position, sensor_radius, ii + 1,
                          obstacle_positions, obstacle_radii)

SenseObstacles_NoClear(points, radii, position, sensor_radius, obstacle_positions, obstacle_radii) ==
  SenseLoop(points, radii, position, sensor_radius, 1, obstacle_positions,
            obstacle_radii)

\* obstacle_positions and obstacle_radii are the caller's lists, cleared
\* before the loop
SenseObstacles(points, radii, position, sensor_radius, obstacle_positions, obstacle_radii) ==
  SenseLoop(points, radii, position, sensor_radius, 1, <<>>, <<>>)

IsObstacle(points, radii, obstacle_position, obstacle_radius) ==
  \E ii \in 1 .. Len(points) :
    /\ IntNormLess([jj \in Dims |-> obstacle_position[jj] - points[ii][jj]],
                   kSmallNumber)
    /\ Abs(obstacle_radius - radii[ii]) < kSmallNumber

Max(a, b) == IF a < b THEN b ELSE a

AddObstacle_NoFloor(points, radii, point, r) ==
  [points |-> Append(points, point), radii |-> Append(radii, r)]

\* the obstacle lists after AddObstacle(point, r)
AddObstacle(points, radii, point, r) ==
  [points |-> Append(points, point),
   radii |-> Append(radii, Max(r, kSmallNumber))]

(***************************************************************************)
(* State.                                                                  *)
(***************************************************************************)
VARIABLES
  value_,    \* the AnalyticalPointMassValueFunction instance under test
  call,      \* the call in progress: operation, arguments and result
  lower_,    \* Box: lower corner
  upper_,    \* Box: upper corner
  points_,   \* BallsInBox: obstacle centres, in insertion order
  radii_,    \* BallsInBox: obstacle radii, in insertion order
  params,        \* the parameter server the node reads
  initialized_,  \* Tracker: Initialize has succeeded
  dynamics_,     \* Tracker: the dynamics, once created
  space_,        \* Tracker: TRUE once the BallsInBox has been created
  planners_,     \* Tracker: the planners, one per value function directory
  traj_,         \* Tracker: the active trajectory
  first_time_,   \* Tracker: no control tick has computed a state yet
  now,           \* the latest reading of ros::Time::now()
  sensor_sub_,   \* Tracker: the sensor messages waiting in the subscription
  crashed        \* the process has died

boxVars == <<lower_, upper_, points_, radii_>>

trackerVars ==
  <<params, initialized_, dynamics_, space_, planners_, traj_, first_time_,
    now, sensor_sub_, crashed>>

vars == <<value_, call, boxVars, trackerVars>>

NoInstance == [none |-> TRUE]

NoCall == [op |-> "none"]

NoParams == [none |-> TRUE]

NoDynamics == [none |-> TRUE]

\* a null trajectory pointer
NoTrajectory == [none |-> TRUE]

\* the state of a process in which no Tracker runs
NoTracker ==
  /\ params = NoParams
  /\ initialized_ = FALSE
  /\ dynamics_ = NoDynamics
  /\ space_ = FALSE
  /\ planners_ = <<>>
  /\ traj_ = NoTrajectory
  /\ first_time_ = FALSE
  /\ now = 0
  /\ sensor_sub_ = <<>>
  /\ crashed = FALSE

Vec3(x, y, z) == [dim \in Dims |-> IF dim = 0 THEN x ELSE IF dim = 1 THEN y ELSE z]

(***************************************************************************)
(* The value function on its own: construction and queries.                *)
(***************************************************************************)
\* Per-axis parameter sets handed to Create: speed of the planner, control
\* bounds, disturbance bounds, expansion velocity and the acceleration the
\* dynamics answer for the maximum control.
AxisProfiles ==
  { [v_ref |-> 1, u_max |-> 1, u_min |-> -1, d_v |-> 0, d_a |-> 1, ev |-> 0, xdm |-> 2],
    [v_ref |-> 0, u_max |-> 1, u_min |-> -1, d_v |-> 1, d_a |-> 1, ev |-> 1, xdm |-> 3],
    [v_ref |-> 1, u_max |-> 2, u_min |-> -1, d_v |-> 1, d_a |-> 0, ev |-> 1, xdm |-> -2],
    [v_ref |-> 1, u_max |-> 1, u_min |-> -1, d_v |-> 0, d_a |-> 2, ev |-> 1, xdm |-> 2],
    [v_ref |-> 1, u_max |-> 1, u_min |-> -1, d_v |-> 0, d_a |-> 1, ev |-> 0, xdm |-> 0] }

RelativeStates ==
  { s \in [StateIdx -> -(IF MaxPos > MaxVel THEN MaxPos ELSE MaxVel)
                       .. (IF MaxPos > MaxVel THEN MaxPos ELSE MaxVel)] :
      /\ \A dim \in Dims : s[dim] \in -MaxPos .. MaxPos
      /\ \A dim \in Dims : s[p_dim_ + dim] \in -MaxVel .. MaxVel }

\* Factory method: always returns the freshly constructed instance.
Create(max_planner_speed, max_tracker_control, min_tracker_control, max_vel_disturbance, max_acc_disturbance, expansion_vel, x_dot_max) ==
  /\ value_ = NoInstance
  /\ value_' = Constructor(max_planner_speed, max_tracker_control,
                           min_tracker_control, max_vel_disturbance,
                           max_acc_disturbance, expansion_vel, x_dot_max)
  /\ UNCHANGED <<call, boxVars, trackerVars>>

\* the axis parameters of the instances built here: the first profile in
\* every axis but at most one
NominalAxis ==
  [v_ref |-> 1, u_max |-> 1, u_min |-> -1, d_v |-> 0, d_a |-> 1, ev |-> 0, xdm |-> 2]

InstanceProfiles ==
  { prof \in [Dims -> AxisProfiles] :
      \E odd \in Dims : \A dim \in Dims \ {odd} : prof[dim] = NominalAxis }

CreateAny ==
  \E prof \in InstanceProfiles :
    Create([dim \in Dims |-> prof[dim].v_ref],
           [dim \in Dims |-> prof[dim].u_max],
           [dim \in Dims |-> prof[dim].u_min],
           [dim \in Dims |-> prof[dim].d_v],
           [dim \in Dims |-> prof[dim].d_a],
           [dim \in Dims |-> prof[dim].ev],
           [i \in StateIdx |-> IF i < p_dim_ THEN 0 ELSE prof[i - p_dim_].xdm])

ValueCall ==
  /\ value_ # NoInstance
  /\ call = NoCall
  /\ \E state \in RelativeStates :
       call' = [op |-> "Value", state |-> state, result |-> Value(value_, state)]
  /\ UNCHANGED <<value_, boxVars, trackerVars>>

OptimalControlCall ==
  /\ value_ # NoInstance
  /\ call = NoCall
  /\ \E state \in RelativeStates :
       call' = [op |-> "OptimalControl", state |-> state,
                result |-> OptimalControl(value_, state)]
  /\ UNCHANGED <<value_, boxVars, trackerVars>>

PriorityCall ==
  /\ value_ # NoInstance
  /\ call = NoCall
  /\ \E state \in RelativeStates :
       call' = [op |-> "Priority", state |-> state,
                result |-> Priority(value_, state)]
  /\ UNCHANGED <<value_, boxVars, trackerVars>>

\* the caller takes the result of the call
Return ==
  /\ call # NoCall
  /\ call' = NoCall
  /\ UNCHANGED <<value_, boxVars, trackerVars>>

InitValue ==
  /\ value_ = NoInstance
  /\ call = NoCall
  /\ lower_ = Vec3(0, 0, 0)
  /\ upper_ = Vec3(0, 0, 0)
  /\ points_ = <<>>
  /\ radii_ = <<>>
  /\ NoTracker

NextValue ==
  \/ CreateAny
  \/ OptimalControlCall
  \/ Return

SpecValue == InitValue /\ [][NextValue]_vars

NextPriority ==
  \/ CreateAny
  \/ ValueCall
  \/ PriorityCall
  \/ Return

SpecPriority == InitValue /\ [][NextPriority]_vars

\* a_max - d_a > 0 in every spatial axis
PositiveAuthority(vf) == \A dim \in Dims : vf.a_max_[dim] - vf.d_a_[dim] > 0

(***************************************************************************)
(* C7.  OptimalControl, per axis: if x >= 0 the result is the braking      *)
(* control u_dec unless V_A < 0, in which case it is the accelerating      *)
(* control u_acc; if x < 0 the result is u_acc unless V_B < 0, in which    *)
(* case it is u_dec.  (u_acc is u_max when the gain is positive, else      *)
(* u_min; u_dec is the other one.)                                         *)
(***************************************************************************)
GainPositive(vf, dim) == XLess(Num(0), vf.u2a_[dim])

UAcc(vf, dim) == IF GainPositive(vf, dim) THEN vf.u_max_[dim] ELSE vf.u_min_[dim]

UDec(vf, dim) == IF GainPositive(vf, dim) THEN vf.u_min_[dim] ELSE vf.u_max_[dim]

C7_AsClaimed ==
  call.op = "OptimalControl" =>
    \A dim \in Dims :
      LET x == call.state[dim]
          v == call.state[p_dim_ + dim]
      IN  /\ (x >= 0 /\ ~XLess(V_A(value_, dim, x, v), Num(0)))
               => call.result[dim] = UDec(value_, dim)
          /\ (x >= 0 /\ XLess(V_A(value_, dim, x, v), Num(0)))
               => call.result[dim] = UAcc(value_, dim)
          /\ (x < 0 /\ ~XLess(V_B(value_, dim, x, v), Num(0)))
               => call.result[dim] = UAcc(value_, dim)
          /\ (x < 0 /\ XLess(V_B(value_, dim, x, v), Num(0)))
               => call.result[dim] = UDec(value_, dim)

\* C7 as amended: if x >= 0 the result is u_dec exactly when V_A < 0 and
\* u_acc otherwise; if x < 0 the result is u_acc exactly when V_B < 0 and
\* u_dec otherwise.
C7_OutsideRule ==
  call.op = "OptimalControl" =>
    \A dim \in Dims :
      LET x == call.state[dim]
          v == call.state[p_dim_ + dim]
      IN  /\ (x >= 0 /\ XLess(V_A(value_, dim, x, v), Num(0)))
               => call.result[dim] = UDec(value_, dim)
          /\ (x >= 0 /\ ~XLess(V_A(value_, dim, x, v), Num(0)))
               => call.result[dim] = UAcc(value_, dim)
          /\ (x < 0 /\ XLess(V_B(value_, dim, x, v), Num(0)))
               => call.result[dim] = UAcc(value_, dim)
          /\ (x < 0 /\ ~XLess(V_B(value_, dim, x, v), Num(0)))
               => call.result[dim] = UDec(value_, dim)

\* an OptimalControl call on a well-formed instance in which the axes take
\* three different branches of the rule, one of them with negative gain
C7_Witness ==
  /\ call.op = "OptimalControl"
  /\ PositiveAuthority(value_)
  /\ \E dim \in Dims :
       /\ call.state[dim] >= 0
       /\ XLess(V_A(value_, dim, call.state[dim], call.state[p_dim_ + dim]), Num(0))
       /\ call.result[dim] = value_.u_min_[dim]
  /\ \E dim \in Dims :
       /\ call.state[dim] >= 0
       /\ ~XLess(V_A(value_, dim, call.state[dim], call.state[p_dim_ + dim]), Num(0))
       /\ call.result[dim] = value_.u_max_[dim]
  /\ \E dim \in Dims :
       /\ call.state[dim] < 0
       /\ ~GainPositive(value_, dim)
       /\ XLess(V_B(value_, dim, call.state[dim], call.state[p_dim_ + dim]), Num(0))
       /\ call.result[dim] = value_.u_min_[dim]

(***************************************************************************)
(* C8.  Construction fails whenever a_max(dim) - d_a(dim) <= 0 for some    *)
(* spatial axis: no instance exists whose Value, Gradient, TrackingBound   *)
(* or expansion term divides by a zero or negative a_max - d_a.            *)
(***************************************************************************)
C8_NoInstanceWithoutAuthority ==
  value_ # NoInstance => PositiveAuthority(value_)

(***************************************************************************)
(* C10.  For every state and every parameter set with a_max > d_a in all   *)
(* axes, Priority(state) lies in [0, 1], also when the value at the zero   *)
(* state is 0 and both thresholds coincide.                                *)
(***************************************************************************)
C10_PriorityInUnitInterval ==
  (call.op = "Priority" /\ PositiveAuthority(value_)) =>
    /\ call.result.k = "fin"
    /\ 0 <= call.result.n
    /\ call.result.n <= call.result.d

\* a Priority call on a well-formed instance whose thresholds coincide
\* (value 0 at the zero state), for a state outside the tracking set
C10_Witness ==
  /\ call.op = "Priority"
  /\ PositiveAuthority(value_)
  /\ Value(value_, ZeroState) = Num(0)
  /\ XLess(Num(0), Value(value_, call.state))
  /\ call.result = Num(0)

(***************************************************************************)
(* C11.  As claimed: Priority is non-increasing as Value increases, i.e.   *)
(* for any two states s1, s2 of one value function with                    *)
(* Value(s1) <= Value(s2), Priority(s1) >= Priority(s2).                   *)
(* As the code computes it: for a value function whose value at the zero   *)
(* state is negative (a_max > d_a and a positive planner speed), Priority  *)
(* is non-decreasing as Value increases: Value(s1) <= Value(s2) implies    *)
(* Priority(s1) <= Priority(s2).                                           *)
(***************************************************************************)
\* the states compared with the state of the call: those that leave the
\* second and third axis at rest at the origin
ProbeStates == { s \in RelativeStates : \A dim \in Dims \ {0} : s[dim] = 0 /\ s[p_dim_ + dim] = 0 }

GradientCall ==
  /\ value_ # NoInstance
  /\ call = NoCall
  /\ \E state \in RelativeStates :
       call' = [op |-> "Gradient", state |-> state,
                result |-> Gradient(value_, state)]
  /\ UNCHANGED <<value_, boxVars, trackerVars>>

NextGradient ==
  \/ CreateAny
  \/ GradientCall
  \/ Return

SpecGradient == InitValue /\ [][NextGradient]_vars

(***************************************************************************)
(* C13.  Gradient is consistent with Value: for a spatial axis whose       *)
(* per-axis value max(V_A, V_B) is strictly below the overall Value (a     *)
(* non-dominant axis, on which Value does not depend nearby), the gradient *)
(* components of that axis are zero; and within an axis the surface whose  *)
(* derivatives (-1 and (v - v_ref)/(a_max - d_a) for A, +1 and             *)
(* (v + v_ref)/(a_max - d_a) for B) are returned is one that attains       *)
(* max(V_A, V_B).                                                          *)
(***************************************************************************)
AxisValue(vf, state, dim) ==
  XMax(V_A(vf, dim, state[dim], state[p_dim_ + dim]),
       V_B(vf, dim, state[dim], state[p_dim_ + dim]))

C13_GradientConsistent ==
  (call.op = "Gradient" /\ PositiveAuthority(value_)) =>
    \A dim \in Dims :
      LET x == call.state[dim]
          v == call.state[p_dim_ + dim]
      IN  /\ XLess(AxisValue(value_, call.state, dim), Value(value_, call.state))
               => /\ call.result[dim] = Num(0)
                  /\ call.result[p_dim_ + dim] = Num(0)
          /\ call.result[dim] = Num(-1)
               => V_A(value_, dim, x, v) = AxisValue(value_, call.state, dim)
          /\ call.result[dim] = Num(1)
               => V_B(value_, dim, x, v) = AxisValue(value_, call.state, dim)

(***************************************************************************)
(* The tracking bound as a function of the parameters of the instance.     *)
(***************************************************************************)
\* axis parameters with a_max = MaxParam + 1 and every other parameter
\* between 0 and MaxParam
BoundAxisProfiles ==
  [v_ref : 0 .. MaxParam, u_max : {1}, u_min : {-1}, d_v : 0 .. MaxParam,
   d_a : 0 .. MaxParam, ev : 0 .. MaxParam, xdm : {MaxParam + 1}]

BoundInstanceProfiles ==
  { prof \in [Dims -> BoundAxisProfiles \cup {NominalAxis}] :
      \E odd \in Dims : \A dim \in Dims \ {odd} : prof[dim] = NominalAxis }

CreateForBound ==
  \E prof \in BoundInstanceProfiles :
    Create([dim \in Dims |-> prof[dim].v_ref],
           [dim \in Dims |-> prof[dim].u_max],
           [dim \in Dims |-> prof[dim].u_min],
           [dim \in Dims |-> prof[dim].d_v],
           [dim \in Dims |-> prof[dim].d_a],
           [dim \in Dims |-> prof[dim].ev],
           [i \in StateIdx |-> IF i < p_dim_ THEN 0 ELSE prof[i - p_dim_].xdm])

TrackingBoundCall ==
  /\ value_ # NoInstance
  /\ call = NoCall
  /\ \E dim \in Dims :
       call' = [op |-> "TrackingBound", dim |-> dim,
                result |-> TrackingBound(value_, dim)]
  /\ UNCHANGED <<value_, boxVars, trackerVars>>

NextBound ==
  \/ CreateForBound
  \/ TrackingBoundCall
  \/ Return

SpecBound == InitValue /\ [][NextBound]_vars

(***************************************************************************)
(* C12.  As claimed: for all axis parameters with a_max > d_a and          *)
(* non-negative planner speed, disturbance bounds and expansion velocity,  *)
(* TrackingBound(dim) >= 0, and TrackingBound(dim) strictly increases when *)
(* max_planner_speed(dim), d_v(dim) or d_a(dim) increases, all other       *)
(* parameters held fixed.                                                  *)
(* As the code computes it: the same, except that in d_a(dim) the bound    *)
(* strictly increases only if max_planner_speed(dim) + d_v(dim) > 0; if    *)
(* both are 0 the bound is 0 for every d_a(dim) < a_max(dim).              *)
(***************************************************************************)
\* the instance that the constructor builds for the control bounds and the
\* maximum acceleration of value_ (positive gain) and the given parameters
Rebuilt(v_ref, d_v, d_a, ev) ==
  Constructor(v_ref, value_.u_max_, value_.u_min_, d_v, d_a, ev,
              [i \in StateIdx |-> IF i < p_dim_ THEN 0 ELSE value_.a_max_[i - p_dim_]])

\* v with entry dim raised by one
Raised(v, dim) == [v EXCEPT ![dim] = @ + 1]

\* the expansion velocities value_ was built with
BuiltWith(ev) ==
  Rebuilt(value_.max_planner_speed_, value_.d_v_, value_.d_a_, ev) = value_

C12_AsClaimed ==
  (call.op = "TrackingBound" /\ PositiveAuthority(value_)) =>
    \A ev \in [Dims -> 0 .. MaxParam] :
      BuiltWith(ev) =>
        LET dim == call.dim
            v_ref == value_.max_planner_speed_
            d_v == value_.d_v_
            d_a == value_.d_a_
        IN  /\ XLeq(Num(0), call.result)
            /\ XLess(call.result,
                     TrackingBound(Rebuilt(Raised(v_ref, dim), d_v, d_a, ev), dim))
            /\ XLess(call.result,
                     TrackingBound(Rebuilt(v_ref, Raised(d_v, dim), d_a, ev), dim))
            /\ value_.a_max_[dim] > d_a[dim] + 1 =>
                 XLess(call.result,
                       TrackingBound(Rebuilt(v_ref, d_v, Raised(d_a, dim), ev), dim))

C12_BoundMonotone ==
  (call.op = "TrackingBound" /\ PositiveAuthority(value_)) =>
    \A ev \in [Dims -> 0 .. MaxParam] :
      BuiltWith(ev) =>
        LET dim == call.dim
            v_ref == value_.max_planner_speed_
            d_v == value_.d_v_
            d_a == value_.d_a_
        IN  /\ XLeq(Num(0), call.result)
            /\ XLess(call.result,
                     TrackingBound(Rebuilt(Raised(v_ref, dim), d_v, d_a, ev), dim))
            /\ XLess(call.result,
                     TrackingBound(Rebuilt(v_ref, Raised(d_v, dim), d_a, ev), dim))
            /\ value_.a_max_[dim] > d_a[dim] + 1 =>
                 IF v_ref[dim] + d_v[dim] > 0
                   THEN XLess(call.result,
                              TrackingBound(Rebuilt(v_ref, d_v, Raised(d_a, dim), ev),
                                            dim))
                   ELSE /\ call.result = Num(0)
                        /\ TrackingBound(Rebuilt(v_ref, d_v, Raised(d_a, dim), ev),
                                         dim) = Num(0)

\* TrackingBound has answered a positive bound for an axis with a positive
\* expansion velocity whose acceleration disturbance can still be raised
C12_Witness ==
  /\ call.op = "TrackingBound"
  /\ PositiveAuthority(value_)
  /\ XLess(Num(0), call.result)
  /\ value_.a_max_[call.dim] > value_.d_a_[call.dim] + 1
  /\ XLess(Num(0), value_.expand_[call.dim])
  /\ \E ev \in [Dims -> 0 .. MaxParam] : BuiltWith(ev)

(***************************************************************************)
(* The tracking set of an instance: the states of negative value.          *)
(***************************************************************************)
\* relative states with an error in the first axis only
AxisStates ==
  { [i \in StateIdx |-> IF i = 0 THEN x ELSE IF i = p_dim_ THEN v ELSE 0] :
      x \in -MaxOffset .. MaxOffset, v \in -MaxVel .. MaxVel }

ValueOnAxisCall ==
  /\ value_ # NoInstance
  /\ call = NoCall
  /\ \E state \in AxisStates :
       call' = [op |-> "Value", state |-> state, result |-> Value(value_, state)]
  /\ UNCHANGED <<value_, boxVars, trackerVars>>

NextTrackingSet ==
  \/ CreateForBound
  \/ ValueOnAxisCall
  \/ Return

SpecTrackingSet == InitValue /\ [][NextTrackingSet]_vars

(***************************************************************************)
(* C18.  Every state strictly inside the tracking set stays within the     *)
(* advertised tracking bound: for every parameter set with a_max > d_a and *)
(* every 6-dimensional relative state with Value(state) < 0, the position  *)
(* component of each spatial axis dim satisfies                            *)
(* |x_dim| <= TrackingBound(dim).                                          *)
(***************************************************************************)
C18_TrackingSetWithinBound ==
  (/\ call.op = "Value"
   /\ PositiveAuthority(value_)
   /\ XLess(call.result, Num(0))) =>
    \A dim \in Dims :
      XLeq(Num(Abs(call.state[dim])), TrackingBound(value_, dim))

(***************************************************************************)
(* The Box on its own: obstacle insertion and queries.                     *)
(***************************************************************************)
Grid == { Vec3(x, y, z) : x \in 0 .. MaxX, y \in 0 .. MaxY, z \in 0 .. MaxZ }

\* obstacles are sensed on a line of the grid
ObstacleCentres == { Vec3(x, 1, 1) : x \in 0 .. MaxCentreX }

WideAxis ==
  [v_ref |-> 1, u_max |-> 1, u_min |-> -1, d_v |-> 1, d_a |-> 1, ev |-> 0, xdm |-> 3]

HoverAxis ==
  [v_ref |-> 0, u_max |-> 1, u_min |-> -1, d_v |-> 1, d_a |-> 1, ev |-> 1, xdm |-> 3]

BuildInstance(prof) ==
  Constructor([dim \in Dims |-> prof[dim].v_ref],
              [dim \in Dims |-> prof[dim].u_max],
              [dim \in Dims |-> prof[dim].u_min],
              [dim \in Dims |-> prof[dim].d_v],
              [dim \in Dims |-> prof[dim].d_a],
              [dim \in Dims |-> prof[dim].ev],
              [i \in StateIdx |-> IF i < p_dim_ THEN 0 ELSE prof[i - p_dim_].xdm])

\* an axis along which the planner stands still and nothing disturbs the
\* velocity: tracking bound 0
StillAxis ==
  [v_ref |-> 0, u_max |-> 1, u_min |-> -1, d_v |-> 0, d_a |-> 1, ev |-> 0, xdm |-> 3]

\* the value functions of the planners that query the Box: tracking bounds
\* (1, 1, 1), (1/2, 5/16, 1/2) and (1, 0, 0)
PlannerValues ==
  [wide |-> BuildInstance(Vec3(WideAxis, WideAxis, WideAxis)),
   narrow |-> BuildInstance(Vec3(NominalAxis, HoverAxis, NominalAxis)),
   line |-> BuildInstance(Vec3(WideAxis, StillAxis, StillAxis))]

PlannerNames == {"wide", "narrow", "line"}

Idle == call.op \in {"none", "AddObstacle"}

AddObstacleCall ==
  /\ Idle
  /\ Len(points_) < MaxObstacles
  /\ \E point \in ObstacleCentres, r \in -1 .. MaxRadius :
       /\ points_' = AddObstacle(points_, radii_, point, r).points
       /\ radii_' = AddObstacle(points_, radii_, point, r).radii
       /\ call' = [op |-> "AddObstacle", point |-> point, r |-> r]
  /\ UNCHANGED <<value_, lower_, upper_, trackerVars>>

IsValidCall ==
  /\ Idle
  /\ \E position \in Grid, incoming \in PlannerNames, outgoing \in PlannerNames :
       call' = [op |-> "IsValid", position |-> position,
                incoming |-> incoming, outgoing |-> outgoing,
                result |-> IsValid(points_, radii_, lower_, upper_, position,
                                   PlannerValues[incoming],
                                   PlannerValues[outgoing])]
  /\ UNCHANGED <<value_, boxVars, trackerVars>>

\* what the caller's output lists hold before the call: nothing, or the
\* answer of an earlier call
PriorLists ==
  { [obstacle_positions |-> <<>>, obstacle_radii |-> <<>>],
    [obstacle_positions |-> <<Vec3(0, 0, 0)>>, obstacle_radii |-> <<MaxRadius>>] }

SenseObstaclesCall ==
  /\ Idle
  /\ \E position \in Grid, sensor_radius \in 0 .. MaxRadius, prior \in PriorLists :
       call' = [op |-> "SenseObstacles", position |-> position,
                sensor_radius |-> sensor_radius, prior |-> prior,
                out |-> SenseObstacles(points_, radii_, position, sensor_radius,
                                       prior.obstacle_positions,
                                       prior.obstacle_radii)]
  /\ UNCHANGED <<value_, boxVars, trackerVars>>

IsObstacleCall ==
  /\ Idle
  /\ \E position \in Grid, radius \in 0 .. MaxRadius :
       call' = [op |-> "IsObstacle", position |-> position, radius |-> radius,
                result |-> IsObstacle(points_, radii_, position, radius)]
  /\ UNCHANGED <<value_, boxVars, trackerVars>>

InitBox ==
  /\ value_ = NoInstance
  /\ call = NoCall
  /\ lower_ = Vec3(0, 0, 0)
  /\ upper_ = Vec3(MaxX, MaxY, MaxZ)
  /\ points_ = <<>>
  /\ radii_ = <<>>
  /\ NoTracker

NextBox ==
  \/ AddObstacleCall
  \/ IsValidCall
  \/ IsObstacleCall
  \/ SenseObstaclesCall
  \/ Return

SpecBox == InitBox /\ [][NextBox]_vars

(***************************************************************************)
(* C1.  IsValid(position, vf, vf) is false whenever, in some dimension,    *)
(* position is closer than vf.TrackingBound(dim) to the lower or the upper *)
(* face of the Box; in general the margin is                               *)
(* outgoing.SwitchingTrackingBound(dim, incoming).                         *)
(***************************************************************************)
NearFace(position, dim, margin) ==
  \/ XLess(Num(position[dim]), XAdd(Num(lower_[dim]), margin))
  \/ XLess(XSub(Num(upper_[dim]), margin), Num(position[dim]))

C1_InvalidNearFace ==
  call.op = "IsValid" =>
    /\ (/\ call.incoming = call.outgoing
        /\ \E dim \in Dims :
             NearFace(call.position, dim,
                      TrackingBound(PlannerValues[call.incoming], dim)))
         => call.result = FALSE
    /\ (\E dim \in Dims :
          NearFace(call.position, dim,
                   SwitchingTrackingBound(PlannerValues[call.outgoing], dim,
                                          PlannerValues[call.incoming])))
         => call.result = FALSE

\* IsValid(position, vf, vf) has answered false for a position that is
\* within the bound of an upper face only, in a Box without obstacles
C1_Witness ==
  /\ call.op = "IsValid"
  /\ call.incoming = call.outgoing
  /\ points_ = <<>>
  /\ call.result = FALSE
  /\ \A dim \in Dims :
       ~XLess(Num(call.position[dim]),
              XAdd(Num(lower_[dim]), TrackingBound(PlannerValues[call.incoming], dim)))

(***************************************************************************)
(* C2.  The obstacle check of IsValid is conservative: provided every      *)
(* switching bound is at most twice the obstacle diameter (4 * radius),    *)
(* IsValid == true implies that the axis-aligned box of half-widths        *)
(* SwitchingTrackingBound(dim) centred at position contains no point       *)
(* within radius of an obstacle centre.                                    *)
(***************************************************************************)
\* the squared distance of the point p to the box of half-widths margin[dim]
\* centred at position
SquaredDistanceToBox(position, margin, p) ==
  SquaredNorm([dim \in Dims |->
                 XMax(Num(0), XSub(Num(Abs(position[dim] - p[dim])), margin[dim]))])

C2_ObstacleCheckConservative ==
  call.op = "IsValid" =>
    LET margin == [dim \in Dims |->
                     SwitchingTrackingBound(PlannerValues[call.outgoing], dim,
                                            PlannerValues[call.incoming])]
    IN  (/\ call.result = TRUE
         /\ \A ii \in 1 .. Len(points_), dim \in Dims :
              XLeq(margin[dim], Num(4 * radii_[ii])))
          => \A ii \in 1 .. Len(points_) :
               XLess(Num(radii_[ii] * radii_[ii]),
                     SquaredDistanceToBox(call.position, margin, points_[ii]))

(***************************************************************************)
(* C4.  AddObstacle(p, r) followed by IsObstacle(p, r) returns true, for   *)
(* every p and r (r = 0 and r < 1e-8 included) and from any obstacle set;  *)
(* IsObstacle(p', r) returns false when p' differs from every stored       *)
(* centre by 1e-8 or more.                                                 *)
(***************************************************************************)
C4_AddedIsObstacle ==
  /\ call.op = "AddObstacle" => IsObstacle(points_, radii_, call.point, call.r)
  /\ (/\ call.op = "IsObstacle"
      /\ \A ii \in 1 .. Len(points_) :
           ~IntNormLess([jj \in Dims |-> call.position[jj] - points_[ii][jj]],
                        kSmallNumber))
       => call.result = FALSE

(***************************************************************************)
(* C14.  SenseObstacles(position, sensor_radius) returns exactly the       *)
(* stored obstacles i with |position - centre_i| <= radius_i +             *)
(* sensor_radius (boundary included), in insertion order, as two parallel  *)
(* lists of equal length from which any previous content has been cleared; *)
(* its boolean result is true if and only if the returned lists are        *)
(* non-empty, and the obstacle set of the Box is unchanged.                *)
(***************************************************************************)
\* the indices of the stored obstacles in reach of the sensor, ascending
InReach(position, sensor_radius) ==
  LET Reached(ii) ==
        IntSquaredNorm([jj \in Dims |-> position[jj] - points_[ii][jj]])
          <= (radii_[ii] + sensor_radius) * (radii_[ii] + sensor_radius)
  IN  SelectSeq([ii \in 1 .. Len(points_) |-> ii], Reached)

SensedExactly ==
  call.op = "SenseObstacles" =>
    LET idx == InReach(call.position, call.sensor_radius)
    IN  /\ call.out.obstacle_positions = [k \in 1 .. Len(idx) |-> points_[idx[k]]]
        /\ call.out.obstacle_radii = [k \in 1 .. Len(idx) |-> radii_[idx[k]]]
        /\ Len(call.out.obstacle_positions) = Len(call.out.obstacle_radii)
        /\ call.out.result = (Len(idx) > 0)

SensingKeepsBox ==
  call'.op = "SenseObstacles" => (points_' = points_ /\ radii_' = radii_)

C14_SenseObstaclesExact == [](SensedExactly) /\ [][SensingKeepsBox]_vars

\* SenseObstacles was called with lists holding an earlier answer and has
\* returned the second of two stored obstacles only, on the boundary of
\* the sensor's reach
C14_Witness ==
  /\ call.op = "SenseObstacles"
  /\ call.prior.obstacle_positions # <<>>
  /\ Len(points_) = 2
  /\ call.out.obstacle_positions = <<points_[2]>>
  /\ call.out.result = TRUE
  /\ IntSquaredNorm([jj \in Dims |-> call.position[jj] - points_[2][jj]])
       = (radii_[2] + call.sensor_radius) * (radii_[2] + call.sensor_radius)

(***************************************************************************)
(* C15.  The obstacle set is append-only: each AddObstacle(p, r) leaves    *)
(* every previously stored (centre, radius) entry unchanged and in place   *)
(* and appends exactly one entry (p, max(r, 1e-8)); no other operation of  *)
(* BallsInBox (IsValid, SenseObstacles, IsObstacle) removes or alters an   *)
(* entry; in every reachable state the centre list and the radius list     *)
(* have equal length and every stored radius is >= 1e-8.                   *)
(***************************************************************************)
ListsWellFormed ==
  /\ Len(points_) = Len(radii_)
  /\ \A ii \in 1 .. Len(radii_) : radii_[ii] >= kSmallNumber

AppendOnlyStep ==
  IF call'.op = "AddObstacle"
    THEN /\ Len(points_') = Len(points_) + 1
         /\ Len(radii_') = Len(radii_) + 1
         /\ \A ii \in 1 .. Len(points_) :
              points_'[ii] = points_[ii] /\ radii_'[ii] = radii_[ii]
         /\ points_'[Len(points_')] = call'.point
         /\ radii_'[Len(radii_')]
              = (IF call'.r >= kSmallNumber THEN call'.r ELSE kSmallNumber)
    ELSE points_' = points_ /\ radii_' = radii_

C15_AppendOnly == [](ListsWellFormed) /\ [][AppendOnlyStep]_vars

\* a second obstacle has been appended with a negative radius, after one
\* with a radius above the floor
C15_Witness ==
  /\ call.op = "AddObstacle"
  /\ call.r < 0
  /\ Len(points_) = 2
  /\ radii_ = <<MaxRadius, kSmallNumber>>
  /\ points_[2] = call.point

(***************************************************************************)
(* C17.  IsValid(position, incoming, outgoing) returns true for every      *)
(* position that is far from all faces and obstacles: whenever each        *)
(* coordinate satisfies lower(dim) + bound(dim) <= position(dim) <=        *)
(* upper(dim) - bound(dim) and, for every obstacle i,                      *)
(* |position - centre_i| > radius_i + |bound|, with |bound| the Euclidean  *)
(* norm of the three switching bounds; and                                 *)
(* it returns false for the centre of a stored obstacle.                   *)
(***************************************************************************)
\* |position - p| > r + |margin|, decided on the squares: with d the
\* distance, d > r and d^2 + r^2 - |margin|^2 > 2 r d
FarFromObstacle(position, margin, p, r) ==
  LET d2 == IntSquaredNorm([jj \in Dims |-> position[jj] - p[jj]])
      t == XSub(Num(d2 + r * r), SquaredNorm(margin))
  IN  /\ d2 > r * r
      /\ XLess(Num(0), t)
      /\ XLess(Num(4 * r * r * d2), XMul(t, t))

FarFromAll(position, margin) ==
  /\ \A dim \in Dims :
       /\ XLeq(XAdd(Num(lower_[dim]), margin[dim]), Num(position[dim]))
       /\ XLeq(Num(position[dim]), XSub(Num(upper_[dim]), margin[dim]))
  /\ \A ii \in 1 .. Len(points_) :
       FarFromObstacle(position, margin, points_[ii], radii_[ii])

C17_ValidFarFromAll ==
  call.op = "IsValid" =>
    LET margin == [dim \in Dims |->
                     SwitchingTrackingBound(PlannerValues[call.outgoing], dim,
                                            PlannerValues[call.incoming])]
    IN  /\ FarFromAll(call.position, margin) => call.result = TRUE
        /\ (\E ii \in 1 .. Len(points_) : points_[ii] = call.position)
             => call.result = FALSE

\* IsValid has answered true for a position far from the faces and from two
\* stored obstacles
C17_Witness ==
  /\ call.op = "IsValid"
  /\ Len(points_) = 2
  /\ FarFromAll(call.position,
                [dim \in Dims |->
                   SwitchingTrackingBound(PlannerValues[call.outgoing], dim,
                                          PlannerValues[call.incoming])])
  /\ call.result = TRUE

(***************************************************************************)
(* C20.  IsValid is monotone in the tracking bound: for a fixed Box,       *)
(* obstacle set and position, if IsValid is true with switching bounds b   *)
(* (one per dimension) then it is also true with any bounds b' that are    *)
(* component-wise smaller or equal (0 <= b' <= b).                         *)
(***************************************************************************)
C20_ValidMonotoneInBound ==
  (call.op = "IsValid" /\ call.result = TRUE) =>
    \A tighter \in PlannerNames :
      (\A dim \in Dims :
         /\ XLeq(Num(0), SwitchingTrackingBound(PlannerValues[call.outgoing], dim,
                                                PlannerValues[tighter]))
         /\ XLeq(SwitchingTrackingBound(PlannerValues[call.outgoing], dim,
                                        PlannerValues[tighter]),
                 SwitchingTrackingBound(PlannerValues[call.outgoing], dim,
                                        PlannerValues[call.incoming])))
        => IsValid(points_, radii_, lower_, upper_, call.position,
                   PlannerValues[tighter], PlannerValues[call.outgoing])

(***************************************************************************)
(* Tracker                                                                 *)
(***************************************************************************)
\* NearHoverQuadNoYaw: dimensions of state and control
X_DIM == 6

U_DIM == 3

\* NearHoverQuadNoYaw: x, y and z are the entries 0, 2 and 4 of the state
SpatialDimension(dimension) == 2 * dimension

Puncture(x) == [dim \in Dims |-> x[SpatialDimension(dim)]]

\* A trajectory is known by the times of its first and of its last waypoint.
\* Plan is not given the current time: the waypoint times count from 0.
Trajectories == [first : {0}, last : 0 .. MaxTime]

\* MetaPlanner::Plan: a trajectory from start to goal, or the failure result
Plan == Trajectories \cup {NoTrajectory}

\* the keys LoadParameters looks up, in the order of the lookups
ParamKeys ==
  <<"meta/control/time_step", "meta/control/dim", "meta/control/upper",
    "meta/control/lower", "meta/planners/values", "meta/state/dim",
    "meta/state/upper", "meta/state/lower", "meta/topics/control",
    "meta/topics/sensor", "meta/topics/known_environment", "meta/topics/traj",
    "meta/topics/tracking_bound", "meta/frames/fixed", "meta/frames/tracker",
    "meta/frames/planner">>

\* ps.missing is the first key that is not on the parameter server
LoadParameters(ps) ==
  /\ ps.missing = "none"
  /\ ~(\/ Len(ps.control_upper) # ps.control_dim
       \/ Len(ps.control_lower) # ps.control_dim)
  /\ Len(ps.value_directories) # 0

\* The vector Initialize builds from a configured array: entry ii is
\* array[ii] for ii < dim; a read past the end of the array yields garbage.
BoundVector(array, dim, garbage) ==
  [ii \in 0 .. (dim - 1) |-> IF ii < Len(array) THEN array[ii + 1] ELSE garbage]

ReadsPastEnd(ps) ==
  \/ Len(ps.state_upper) < ps.state_dim
  \/ Len(ps.state_lower) < ps.state_dim

Garbage == {-1, MaxX + 1}

UBOutcomes == {"crash", "continue"}

\* Initialize; the result is "true", "false" or, when the process dies in
\* it, "crash".  plan is the answer of the meta planner; ub says how the
\* build behaves at undefined behaviour (a read past the end of an array,
\* a call through a null trajectory pointer); garbage is what a read past
\* the end yields when the process survives it.
Initialize(plan, ub, garbage) ==
  /\ call = NoCall
  /\ params # NoParams
  /\ ~initialized_
  /\ ~crashed
  /\ IF ~LoadParameters(params)
       THEN /\ call' = [op |-> "Initialize", result |-> "false"]
            /\ UNCHANGED <<dynamics_, space_, planners_, traj_, first_time_,
                           initialized_, crashed, boxVars>>
       ELSE /\ dynamics_' =
                 [lower_u |-> BoundVector(params.control_lower, params.control_dim, garbage),
                  upper_u |-> BoundVector(params.control_upper, params.control_dim, garbage)]
            /\ space_' = TRUE
            /\ points_' = <<>>
            /\ radii_' = <<>>
            /\ IF ReadsPastEnd(params) /\ ub = "crash"
                 THEN /\ crashed' = TRUE
                      /\ call' = [op |-> "Initialize", result |-> "crash"]
                      /\ UNCHANGED <<lower_, upper_, planners_, traj_,
                                     first_time_, initialized_>>
                 ELSE /\ lower_' = Puncture(BoundVector(params.state_lower,
                                                        params.state_dim, garbage))
                      /\ upper_' = Puncture(BoundVector(params.state_upper,
                                                        params.state_dim, garbage))
                      /\ first_time_' = TRUE
                      /\ planners_' = [ii \in 1 .. Len(params.value_directories) |->
                                         params.value_directories[ii]]
                      \* RunMetaPlanner
                      /\ traj_' = plan
                      /\ IF plan = NoTrajectory /\ ub = "crash"
                           THEN /\ crashed' = TRUE
                                /\ call' = [op |-> "Initialize", result |-> "crash"]
                                /\ UNCHANGED initialized_
                           ELSE /\ initialized_' = TRUE
                                /\ call' = [op |-> "Initialize", result |-> "true"]
                                /\ UNCHANGED crashed
  /\ UNCHANGED <<value_, params, now, sensor_sub_>>

\* the behaviours at undefined behaviour that matter for this trajectory
UBOf(traj) == IF traj = NoTrajectory THEN UBOutcomes ELSE {"continue"}

InitializeCall ==
  \E plan \in Plan, garbage \in Garbage :
    \E ub \in (IF ReadsPastEnd(params) THEN UBOutcomes ELSE UBOf(plan)) :
      Initialize(plan, ub, garbage)

\* SensorCallback for the message (point, radius)
SensorCallback(point, radius, plan, ub) ==
  /\ initialized_
  /\ ~crashed
  /\ IF ~IsObstacle(points_, radii_, point, radius)
       THEN /\ Len(points_) < MaxObstacles
            /\ points_' = AddObstacle(points_, radii_, point, radius).points
            /\ radii_' = AddObstacle(points_, radii_, point, radius).radii
            \* RunMetaPlanner
            /\ traj_' = plan
            /\ crashed' = (plan = NoTrajectory /\ ub = "crash")
            /\ call' = [op |-> "SensorCallback", point |-> point, radius |-> radius,
                        added |-> TRUE, planned |-> TRUE,
                        failed |-> (plan = NoTrajectory),
                        \* the obstacles of space_ when MetaPlanner is built
                        planned_against |->
                          AddObstacle(points_, radii_, point, radius).points]
       ELSE /\ call' = [op |-> "SensorCallback", point |-> point, radius |-> radius,
                        added |-> FALSE, planned |-> FALSE, failed |-> FALSE,
                        planned_against |-> <<>>]
            /\ UNCHANGED <<points_, radii_, traj_, crashed>>
  /\ UNCHANGED <<value_, lower_, upper_, params, initialized_, dynamics_, space_,
                 planners_, first_time_, now>>

SensorCallbackAny ==
  /\ UNCHANGED sensor_sub_
  /\ \E point \in ObstacleCentres, radius \in 0 .. MaxRadius :
       IF IsObstacle(points_, radii_, point, radius)
         THEN SensorCallback(point, radius, NoTrajectory, "continue")
         ELSE \E plan \in Plan : \E ub \in UBOf(plan) :
                SensorCallback(point, radius, plan, ub)

\* TimerCallback.  t1 is the clock at the start of the tick, t2 the clock
\* after the meta planner has run, tf_ok says whether the transform lookup
\* succeeds, past is what the comparison with LastTime() yields when it is
\* made through a null pointer and the process survives.
TimerCallback(t1, t2, plan, tf_ok, ub, past) ==
  LET null1 == traj_ = NoTrajectory
      replan == IF null1 THEN past ELSE t1 > traj_.last
      traj1 == IF replan THEN plan ELSE traj_
      current_time == IF replan THEN t2 ELSE t1
      ticked == [op |-> "TimerCallback", replanned |-> replan,
                 failed |-> (replan /\ plan = NoTrajectory),
                 sampled |-> FALSE, t |-> current_time, traj |-> traj1]
  IN  /\ initialized_
      /\ ~crashed
      /\ now <= t1
      /\ t1 <= t2
      /\ IF null1 /\ ub = "crash"
           THEN \* traj_->LastTime() through a null pointer
                /\ crashed' = TRUE
                /\ now' = t1
                /\ call' = [ticked EXCEPT !.replanned = FALSE, !.failed = FALSE,
                                          !.t = t1, !.traj = traj_]
                /\ UNCHANGED <<traj_, first_time_>>
           ELSE /\ traj_' = traj1
                /\ now' = current_time
                /\ IF replan /\ plan = NoTrajectory /\ ub = "crash"
                     THEN \* traj_->Visualize() through a null pointer
                          /\ crashed' = TRUE
                          /\ call' = ticked
                          /\ UNCHANGED first_time_
                     ELSE IF ~tf_ok
                       THEN \* the transform is not available: no control
                            /\ call' = ticked
                            /\ UNCHANGED <<first_time_, crashed>>
                       ELSE /\ first_time_' = FALSE
                            \* traj_->GetState(), traj_->GetValueFunction()
                            /\ call' = [ticked EXCEPT !.sampled = TRUE]
                            /\ crashed' = (traj1 = NoTrajectory /\ ub = "crash")
      /\ UNCHANGED <<value_, boxVars, params, initialized_, dynamics_, space_,
                     planners_, sensor_sub_>>

TimerCallbackAny ==
  \E t1 \in now .. MaxTime :
    \E past \in (IF traj_ = NoTrajectory THEN BOOLEAN ELSE {FALSE}) :
      LET replan == IF traj_ = NoTrajectory THEN past ELSE t1 > traj_.last
      IN  \E t2 \in (IF replan THEN t1 .. MaxTime ELSE {t1}),
             plan \in (IF replan THEN Plan ELSE {NoTrajectory}) :
            \E ub \in (IF traj_ = NoTrajectory THEN UBOutcomes
                       ELSE UBOf(IF replan THEN plan ELSE traj_)) :
              \E tf_ok \in (IF ub = "crash" /\ (replan \/ traj_ = NoTrajectory)
                               THEN {FALSE} ELSE BOOLEAN) :
                TimerCallback(t1, t2, plan, tf_ok, ub, past)

PatternArray(len, position, velocity) ==
  [i \in 1 .. len |->
     IF i = 1 THEN position[0]
     ELSE IF i = 3 THEN position[1]
     ELSE IF i = 5 THEN position[2]
     ELSE velocity]

\* what the parameter server may hold: any key may be the first one missing,
\* the bound arrays may be shorter or longer than the declared dimensions
ParamSets ==
  { [missing |-> m, control_dim |-> U_DIM, state_dim |-> X_DIM,
     control_upper |-> [i \in 1 .. cu |-> 1],
     control_lower |-> [i \in 1 .. cl |-> -1],
     value_directories |-> [i \in 1 .. nv |-> "value"],
     state_upper |-> PatternArray(su, Vec3(MaxX, MaxY, MaxZ), 1),
     state_lower |-> PatternArray(sl, Vec3(0, 0, 0), -1)] :
      m \in {"none"} \cup { ParamKeys[i] : i \in 1 .. Len(ParamKeys) },
      cu \in (U_DIM - 1) .. (U_DIM + 1), cl \in (U_DIM - 1) .. (U_DIM + 1),
      nv \in 0 .. 1,
      su \in (X_DIM - 2) .. (X_DIM + 1), sl \in (X_DIM - 2) .. (X_DIM + 1) }

GoodParams ==
  [missing |-> "none", control_dim |-> U_DIM, state_dim |-> X_DIM,
   control_upper |-> [i \in 1 .. U_DIM |-> 1],
   control_lower |-> [i \in 1 .. U_DIM |-> -1],
   value_directories |-> [i \in 1 .. 1 |-> "value"],
   state_upper |-> PatternArray(X_DIM, Vec3(MaxX, MaxY, MaxZ), 1),
   state_lower |-> PatternArray(X_DIM, Vec3(0, 0, 0), -1)]

\* the state after Tracker::Tracker()
Constructed ==
  /\ value_ = NoInstance
  /\ call = NoCall
  /\ lower_ = Vec3(0, 0, 0)
  /\ upper_ = Vec3(0, 0, 0)
  /\ points_ = <<>>
  /\ radii_ = <<>>
  /\ initialized_ = FALSE
  /\ dynamics_ = NoDynamics
  /\ space_ = FALSE
  /\ planners_ = <<>>
  /\ traj_ = NoTrajectory
  /\ first_time_ = FALSE
  /\ now = 0
  /\ sensor_sub_ = <<>>
  /\ crashed = FALSE

InitStartup == Constructed /\ params \in ParamSets

NextStartup == InitializeCall

SpecStartup == InitStartup /\ [][NextStartup]_vars

InitTracker == Constructed /\ params = GoodParams

\* the node spins, and serves its callbacks, after Initialize has returned
NextTracker ==
  \/ InitializeCall
  \/ SensorCallbackAny
  \/ TimerCallbackAny

SpecTracker == InitTracker /\ [][NextTracker]_vars

(***************************************************************************)
(* C3.  After any sequence of sensor events the Box never holds two        *)
(* obstacles whose centres are within 1e-8 and whose radii are within 1e-8 *)
(* of each other; a sensor event that repeats the one before it, whatever  *)
(* its radius (zero included), adds no obstacle and triggers no run of the *)
(* meta planner.                                                           *)
(***************************************************************************)
NoTwoAlike ==
  \A ii \in 1 .. Len(points_), jj \in 1 .. Len(points_) :
    ii < jj =>
      ~(/\ IntNormLess([dim \in Dims |-> points_[ii][dim] - points_[jj][dim]],
                       kSmallNumber)
        /\ Abs(radii_[ii] - radii_[jj]) < kSmallNumber)

RepeatIsIgnored ==
  (/\ call.op = "SensorCallback"
   /\ call'.op = "SensorCallback"
   /\ call'.point = call.point
   /\ call'.radius = call.radius)
    => (~call'.added /\ ~call'.planned /\ points_' = points_)

C3_SensorEventsDeduplicated == [](NoTwoAlike) /\ [][RepeatIsIgnored]_vars

(***************************************************************************)
(* C5.  When a run of the meta planner ends in planning failure, the       *)
(* active trajectory traj_ is left unchanged.                              *)
(***************************************************************************)
C5_FailureKeepsTrajectory ==
  [][(call'.op \in {"SensorCallback", "TimerCallback"} /\ call'.failed)
       => traj_' = traj_]_vars

(***************************************************************************)
(* C6.  In every control tick the trajectory is sampled (GetState,         *)
(* GetValueFunction) only for a time between the first waypoint time and   *)
(* LastTime() of the trajectory that is active at the moment of the call,  *)
(* also after a replanning inside the tick.                                *)
(***************************************************************************)
C6_SampleWithinTimeline ==
  (call.op = "TimerCallback" /\ call.sampled) =>
    /\ call.traj # NoTrajectory
    /\ call.traj.first <= call.t
    /\ call.t <= call.traj.last

(***************************************************************************)
(* C16.  The control tick never observes a half-updated Box (centre and    *)
(* radius lists of different length) nor a partially written or absent     *)
(* trajectory: every read of the Box or of traj_ by TimerCallback sees the *)
(* state before or after a complete AddObstacle / RunMetaPlanner.          *)
(***************************************************************************)
\* the step is a control tick
IsTick ==
  /\ call'.op = "TimerCallback"
  /\ <<call, now, traj_, first_time_, crashed>>' # <<call, now, traj_, first_time_, crashed>>

TickReadsCompleteState ==
  IsTick => (traj_ # NoTrajectory /\ Len(points_) = Len(radii_))

G == 10

\* G * tan(u) near hover for an angle of u tenths of a radian, to the
\* nearest m/s^2
GTan(u) == Sgn(u) * ((G * Abs(u)) \div 10)

\* NearHoverQuadNoYaw::Evaluate: x = (x, x_dot, y, y_dot, z, z_dot),
\* u = (pitch, roll, thrust)
Evaluate(x, u) ==
  [i \in 0 .. (X_DIM - 1) |->
     IF i = 0 THEN x[1]
     ELSE IF i = 1 THEN GTan(u[0])
     ELSE IF i = 2 THEN x[3]
     ELSE IF i = 3 THEN GTan(u[1])
     ELSE IF i = 4 THEN x[5]
     ELSE u[2] - G]

\* upper control bounds: pitch and roll in tenths of a radian, thrust in
\* m/s^2; the lower bounds mirror them about hover
ControlUppers == { Vec3(pitch, roll, G + lift) : pitch \in 1 .. 2, roll \in 1 .. 2, lift \in 1 .. 2 }

ControlLower(upper) == Vec3(-upper[0], -upper[1], 2 * G - upper[2])

\* the value function built on the dynamics, as the constructor asks it for
\* the state derivative at rest under the maximum control
CreateFromDynamics ==
  \E upper \in ControlUppers :
    Create([dim \in Dims |-> 1], upper, ControlLower(upper),
           [dim \in Dims |-> 0], [dim \in Dims |-> 0], [dim \in Dims |-> 0],
           Evaluate(ZeroState, upper))

\* state_ after the tick has taken the translation from tf: velocities by
\* finite difference at indices 1, 3, 5 (zero on the first tick), positions
\* at SpatialDimension(0 .. 2)
TrackerState(state, translation, first_time, time_step) ==
  LET velocities ==
        [i \in 0 .. (X_DIM - 1) |->
           IF first_time
             THEN (IF i \in {1, 3, 5} THEN 0 ELSE state[i])
             ELSE IF i = 1 THEN (translation[0] - state[0]) \div time_step
             ELSE IF i = 3 THEN (translation[1] - state[2]) \div time_step
             ELSE IF i = 5 THEN (translation[2] - state[4]) \div time_step
             ELSE state[i]]
  IN  [i \in 0 .. (X_DIM - 1) |->
         IF \E dim \in Dims : i = SpatialDimension(dim)
           THEN translation[CHOOSE dim \in Dims : i = SpatialDimension(dim)]
           ELSE velocities[i]]

\* steps 1) to 3) of the tick: the relative state and the optimal control
\* of the value function for it
TickControl(state, translation, first_time, time_step, planner_state) ==
  LET new_state == TrackerState(state, translation, first_time, time_step)
      relative_state == [i \in 0 .. (X_DIM - 1) |-> new_state[i] - planner_state[i]]
  IN  /\ value_ # NoInstance
      /\ call = NoCall
      /\ call' = [op |-> "TimerCallback.control",
                  previous |-> state, translation |-> translation,
                  first_time |-> first_time, time_step |-> time_step,
                  planner_state |-> planner_state,
                  state |-> new_state, relative_state |-> relative_state,
                  optimal_control |-> OptimalControl(value_, relative_state)]
      /\ UNCHANGED <<value_, boxVars, trackerVars>>

\* Tracker states hold whole positions in 0 .. 1 and velocities in -1 .. 1
TickControlAny ==
  \E px \in 0 .. 1, vy \in -1 .. 1, translation \in [Dims -> 0 .. 1], first_time \in BOOLEAN :
    TickControl([i \in 0 .. (X_DIM - 1) |-> IF i = 0 THEN px ELSE IF i = 3 THEN vy ELSE 0],
                translation, first_time, 1, ZeroState)

NextLayout ==
  \/ CreateFromDynamics
  \/ TickControlAny
  \/ Return

SpecLayout == InitValue /\ [][NextLayout]_vars

(***************************************************************************)
(* C19.  The value function and the dynamics agree on the state layout:    *)
(* for every spatial axis dim, the entries that the value function reads   *)
(* as position and velocity of axis dim are the entries that               *)
(* NearHoverQuadNoYaw and the Tracker write as position and velocity of    *)
(* that axis (state index SpatialDimension(dim) and the one after it), and *)
(* the per-axis maximum acceleration a_max(dim) taken in the constructor   *)
(* is the derivative of that axis's velocity entry under maximum control.  *)
(***************************************************************************)
\* the entries Value, Gradient and OptimalControl read for axis dim
ReadAsPosition(state, dim) == state[dim]

ReadAsVelocity(state, dim) == state[p_dim_ + dim]

C19_LayoutsAgree ==
  /\ value_ # NoInstance =>
       \A dim \in Dims :
         value_.a_max_[dim]
           = Abs(Evaluate(ZeroState, value_.u_max_)[SpatialDimension(dim) + 1])
  /\ call.op = "TimerCallback.control" =>
       \A dim \in Dims :
         /\ ReadAsPosition(call.relative_state, dim)
              = call.relative_state[SpatialDimension(dim)]
         /\ ReadAsVelocity(call.relative_state, dim)
              = call.relative_state[SpatialDimension(dim) + 1]

(***************************************************************************)
(* C9.  Initialize fails fast (returns false and creates no dynamics, Box, *)
(* planners or trajectory) whenever a configured control bound array or    *)
(* state bound array has a length different from the declared dimension.   *)
(***************************************************************************)
C9_WrongLengthFailsFast ==
  (/\ call.op = "Initialize"
   /\ \/ Len(params.control_upper) # params.control_dim
      \/ Len(params.control_lower) # params.control_dim
      \/ Len(params.state_upper) # params.state_dim
      \/ Len(params.state_lower) # params.state_dim)
    => /\ call.result = "false"
       /\ dynamics_ = NoDynamics
       /\ space_ = FALSE
       /\ planners_ = <<>>
       /\ traj_ = NoTrajectory

(***************************************************************************)
(* The sensor subscription: messages wait in its queue until the node      *)
(* serves them, one SensorCallback at a time.                              *)
(***************************************************************************)
\* the queue size given to subscribe
kSensorQueueSize == 10

\* the messages the sensor sends: two obstacles of the largest radius
SensorMessages ==
  { [point |-> Vec3(0, 1, 1), radius |-> MaxRadius],
    [point |-> Vec3(1, 1, 1), radius |-> MaxRadius] }

\* A message arrives while the node is busy or idle.  A full queue gives up
\* its oldest message.
SensorArrives ==
  /\ initialized_
  /\ ~crashed
  /\ \E msg \in SensorMessages :
       sensor_sub_' = IF Len(sensor_sub_) >= kSensorQueueSize
                        THEN Append(Tail(sensor_sub_), msg)
                        ELSE Append(sensor_sub_, msg)
  /\ UNCHANGED <<value_, call, boxVars, params, initialized_, dynamics_, space_,
                 planners_, traj_, first_time_, now, crashed>>

\* The node takes the oldest waiting message and runs SensorCallback on it
\* to its end.
SensorDispatch ==
  /\ sensor_sub_ # <<>>
  /\ sensor_sub_' = Tail(sensor_sub_)
  /\ LET msg == Head(sensor_sub_)
     IN  IF IsObstacle(points_, radii_, msg.point, msg.radius)
           THEN SensorCallback(msg.point, msg.radius, NoTrajectory, "continue")
           ELSE \E plan \in Plan : \E ub \in UBOf(plan) :
                  SensorCallback(msg.point, msg.radius, plan, ub)

NextSensorQueue ==
  \/ InitializeCall
  \/ SensorArrives
  \/ SensorDispatch

SpecSensorQueue == InitTracker /\ [][NextSensorQueue]_vars

(***************************************************************************)
(* C21.  Each sensor event that reports an obstacle not yet in the Box     *)
(* causes, in this order and exactly once each, the insertion of the       *)
(* obstacle into the Box and then one complete run of the meta planner, so *)
(* that the trajectory active after the event was planned against a Box    *)
(* that contains the new obstacle; the plan is run to completion before    *)
(* any further sensor event is processed, and later events wait.           *)
(***************************************************************************)
\* the handler has inserted the reported obstacle and then planned once,
\* against the Box that holds it; traj_ is the result of that run
InsertedThenPlanned ==
  (call.op = "SensorCallback" /\ call.added) =>
    /\ points_ # <<>>
    /\ points_[Len(points_)] = call.point
    /\ radii_[Len(radii_)] = Max(call.radius, kSmallNumber)
    /\ call.planned
    /\ call.planned_against = points_
    /\ (traj_ = NoTrajectory) = call.failed

\* the report of an obstacle that is not in the Box keeps waiting, in this
\* event or in a later one for the same obstacle, until SensorCallback runs
\* on it
WaitingEventsKept ==
  \A ii \in 1 .. Len(sensor_sub_) :
    ~IsObstacle(points_, radii_, sensor_sub_[ii].point, sensor_sub_[ii].radius) =>
      \/ \E jj \in 1 .. Len(sensor_sub_') : sensor_sub_'[jj] = sensor_sub_[ii]
      \/ /\ ii = 1
         /\ sensor_sub_' = Tail(sensor_sub_)
         /\ call'.op = "SensorCallback"
         /\ call'.point = sensor_sub_[ii].point
         /\ call'.radius = sensor_sub_[ii].radius
         /\ call'.added

\* an event for an obstacle that is not in the Box is answered by insertion
\* and planning
NewObstacleHandled ==
  (/\ sensor_sub_ # <<>>
   /\ sensor_sub_' = Tail(sensor_sub_)
   /\ ~IsObstacle(points_, radii_, Head(sensor_sub_).point, Head(sensor_sub_).radius))
    => (/\ call'.added
        /\ call'.planned
        /\ points_' = Append(points_, Head(sensor_sub_).point))

\* the part of C21 that is about one run of SensorCallback: insertion, then
\* one run of the meta planner against the Box that holds the obstacle
C21_HandlerInsertsThenPlans == [](InsertedThenPlanned) /\ [][NewObstacleHandled]_vars

\* C21: every sensor event for an obstacle that is not in the Box is inserted
\* and planned for, exactly once and in this order, and an event that arrives
\* while the node is busy waits for its turn
C21_EachEventInsertedAndPlanned == [](InsertedThenPlanned) /\ [][NewObstacleHandled /\ WaitingEventsKept]_vars

====
